---- MODULE Spec2Model ----
(***************************************************************************)
(* Model of z3-verification.py: the term builder (f, m, p, t, v, P, M, F)  *)
(* and the entailment checker check(assumptions, conclusions, timeout_ms). *)
(* The solver is an opaque oracle answering unsat / sat / unknown.         *)
(***************************************************************************)
EXTENDS Integers, Sequences, FiniteSets, TLC

VARIABLES
    \* ---- check(): arguments, locals and return value
    pc,            \* position inside check: idle, loop, display, decide, classify, done, raised
    assumptions,   \* argument: list of formulas
    conclusions,   \* argument: list of formulas
    timeout_ms,    \* argument: solver timeout
    i,             \* enumerate index of the current conclusion (1-based here, 0 before the loop)
    s,             \* the Solver bound to the local name s
    shown,         \* what the display step printed for the current conclusion
    result,        \* value returned by s.check()
    duration,      \* end_time - start_time of the current decision
    results,       \* the list under construction
    line,          \* the last "Result: ..." trace line printed
    returned,      \* the value returned to the caller
    \* ---- the oracle and the history of its use
    deterministic, \* whether the oracle answers a repeated query identically
    oracle,        \* answers the deterministic oracle has already given
    opened,        \* indices of the conclusions for which a Solver was created, in order
    queries,       \* the queries decided, in order: conclusion index and session state
    calls,         \* number of invocations of check so far
    prevReturned,  \* value returned by the previous invocation
    \* ---- term builder
    helper,        \* which helper was called: none, P, M, F, t, v
    operands,      \* its argument tuple
    built          \* its outcome: returned term or raised error

checkVars == <<pc, assumptions, conclusions, timeout_ms, i, s, shown, result,
               duration, results, line, returned, deterministic, oracle,
               opened, queries, calls, prevReturned>>
termVars == <<helper, operands, built>>
vars == <<pc, assumptions, conclusions, timeout_ms, i, s, shown, result,
          duration, results, line, returned, deterministic, oracle,
          opened, queries, calls, prevReturned, helper, operands, built>>

\* ---------------------------------------------------------------------------
\* Bounds
\* ---------------------------------------------------------------------------
MaxConclusions == 2
MaxOperands == 3

\* ---------------------------------------------------------------------------
\* Terms: a constant or variable is <<name>>, an application is <<op, l, r>>
\* ---------------------------------------------------------------------------
f(a, b) == <<"f", a, b>>
m(a, b) == <<"m", a, b>>
p(a, b) == <<"p", a, b>>
e == <<"e">>
x == <<"x">>
y == <<"y">>
z == <<"z">>
w == <<"w">>

\* t with the arguments of the inner application exchanged
t_InnerSwapped(a, b) == f(f(b, a), b)

t(a, b) == f(f(a, b), b)

v(a, b) == t(t(a, b), a)

Return(value) == [kind |-> "return", value |-> value]
Raise(error) == [kind |-> "raise", value |-> <<error>>]
NotCalled == [kind |-> "none", value |-> <<>>]

\* the loop of P with the accumulated term passed as the right argument
RECURSIVE PLoop_RightNested(_, _)
PLoop_RightNested(res, rest) ==
    IF rest = <<>> THEN res
    ELSE PLoop_RightNested(p(Head(rest), res), Tail(rest))

RECURSIVE PLoop(_, _)
PLoop(res, rest) ==
    IF rest = <<>> THEN res ELSE PLoop(p(res, Head(rest)), Tail(rest))

\* the arity guard rejecting a single operand as well
NoArgs_OffByOne(args) == Len(args) <= 1

NoArgs(args) == Len(args) = 0

P(args) ==
    IF NoArgs(args) THEN Raise("ValueError")
    ELSE Return(PLoop(args[1], Tail(args)))

RECURSIVE MLoop(_, _)
MLoop(res, rest) ==
    IF rest = <<>> THEN res ELSE MLoop(m(res, Head(rest)), Tail(rest))

M(args) ==
    IF NoArgs(args) THEN Raise("ValueError")
    ELSE Return(MLoop(args[1], Tail(args)))

RECURSIVE FLoop(_, _)
FLoop(res, rest) ==
    IF rest = <<>> THEN res ELSE FLoop(f(res, Head(rest)), Tail(rest))

F(args) ==
    IF NoArgs(args) THEN Raise("ValueError")
    ELSE Return(FLoop(args[1], Tail(args)))

\* Terms the catalogue passes to the helpers: variables, the constant, and
\* compound operands such as p(x,y) in P(x, y, y, p(x, y)) or f(x,y) in F(f(x,y), ...)
Operands == {x, y, e, p(x, y), f(y, x)}

OperandTuples == UNION {[1..n -> Operands] : n \in 0..MaxOperands}

TermInit ==
    /\ helper = "none"
    /\ operands = <<>>
    /\ built = NotCalled

CallP(args) ==
    /\ helper = "none"
    /\ helper' = "P"
    /\ operands' = args
    /\ built' = P(args)
    /\ UNCHANGED checkVars

CallM(args) ==
    /\ helper = "none"
    /\ helper' = "M"
    /\ operands' = args
    /\ built' = M(args)
    /\ UNCHANGED checkVars

CallF(args) ==
    /\ helper = "none"
    /\ helper' = "F"
    /\ operands' = args
    /\ built' = F(args)
    /\ UNCHANGED checkVars

Call_t(a, b) ==
    /\ helper = "none"
    /\ helper' = "t"
    /\ operands' = <<a, b>>
    /\ built' = Return(t(a, b))
    /\ UNCHANGED checkVars

Call_v(a, b) ==
    /\ helper = "none"
    /\ helper' = "v"
    /\ operands' = <<a, b>>
    /\ built' = Return(v(a, b))
    /\ UNCHANGED checkVars

\* the helper call is over; the next term of the catalogue is built
NextTerm ==
    /\ helper # "none"
    /\ built.kind = "return"
    /\ helper' = "none"
    /\ operands' = <<>>
    /\ built' = NotCalled
    /\ UNCHANGED checkVars

\* ---------------------------------------------------------------------------
\* Formulas: the part of the axiom catalogue the driver selects from
\* ---------------------------------------------------------------------------
ForAll(bound, body) == <<"ForAll", bound, body>>
Eq(lhs, rhs) == <<"==", lhs, rhs>>
And(lhs, rhs) == <<"And", lhs, rhs>>
Implies(lhs, rhs) == <<"Implies", lhs, rhs>>
Not(formula) == <<"Not", formula>>

Axiom_5_Refl == ForAll(<<x>>, Eq(f(x, x), e))
Axiom_RC_3_tAntisymmetryE ==
    ForAll(<<x, y>>, Eq(P(<<x, y, x>>).value, P(<<x, y, x, y>>).value))
Axiom_RC_5_RightAbsorption ==
    ForAll(<<x, y>>, Eq(P(<<x, y, y, p(x, y)>>).value, p(x, y)))
Axiom_RC_7_Flattening ==
    ForAll(<<x, y, z>>, Eq(p(p(x, y), p(x, z)), p(p(x, y), z)))
Axiom_RC_9_WeakClosureStability ==
    ForAll(<<x, y>>,
           Eq(P(<<P(<<P(<<x, y, x>>).value, p(x, y)>>).value, x,
                  P(<<x, y, x, x>>).value>>).value,
              P(<<x, y, x, x>>).value))
Quasi_AntiSym_p ==
    ForAll(<<x, y>>, Implies(And(Eq(p(x, y), y), Eq(p(y, x), x)), Eq(x, y)))
Axiom_CornishJ_p ==
    ForAll(<<x, y>>, Eq(P(<<x, y, x>>).value, P(<<y, x, y>>).value))

Theory_WRC_p ==
    <<Axiom_RC_5_RightAbsorption, Axiom_RC_7_Flattening,
      Axiom_RC_9_WeakClosureStability>>

\* ---------------------------------------------------------------------------
\* Inputs of check
\* ---------------------------------------------------------------------------
DefaultTimeout == 1000

Timeouts == {DefaultTimeout, 50}

AssumptionLists == {<<>>, <<Axiom_5_Refl>>, Theory_WRC_p \o <<Quasi_AntiSym_p>>}

Conclusions == {Axiom_RC_3_tAntisymmetryE, Axiom_CornishJ_p}

ConclusionLists == UNION {[1..n -> Conclusions] : n \in 0..MaxConclusions}

\* ---------------------------------------------------------------------------
\* The oracle
\* ---------------------------------------------------------------------------
Outcomes == {"unsat", "sat", "unknown"}

\* elapsed wall-clock time of a decision, in microseconds
Durations == {499, 12600}

\* one Solver shared by all iterations: the assertions of the previous one remain
Solver_Reused == [timeout |-> -1, assertions |-> s.assertions]

\* a Solver as created by Solver(): no timeout configured, nothing asserted
Solver == [timeout |-> -1, assertions |-> <<>>]

\* the local name s before the first iteration binds it
Unbound == [timeout |-> -1, assertions |-> <<>>]

\* the timeout argument ignored in favour of the default
SetTimeout_Default(solver, ms) == [solver EXCEPT !.timeout = DefaultTimeout]

SetTimeout(solver, ms) == [solver EXCEPT !.timeout = ms]

\* s.add(list): every formula of the list is asserted, in order
AddAll(solver, formulas) ==
    [solver EXCEPT !.assertions = solver.assertions \o formulas]

\* s.add(formula)
Add(solver, formula) ==
    [solver EXCEPT !.assertions = Append(solver.assertions, formula)]

\* answers s.check() may give for this session
Answers(solver) ==
    IF deterministic /\ \E known \in oracle : known.query = solver
    THEN {known.outcome : known \in {k \in oracle : k.query = solver}}
    ELSE Outcomes

\* ---------------------------------------------------------------------------
\* check(assumptions, conclusions, timeout_ms)
\* ---------------------------------------------------------------------------
\* except Exception / except AttributeError around the two print attempts
DisplayConclusion(primary, fallback) ==
    IF primary = "ok" THEN "pretty"
    ELSE IF fallback = "ok" THEN "sexpr"
    ELSE IF fallback = "AttributeError" THEN "placeholder"
    ELSE "raise"

\* the two decided branches exchanged
Classify_Exchanged(res) ==
    IF res = "unsat" THEN "doesn't hold"
    ELSE IF res = "sat" THEN "holds"
    ELSE "unknown"

\* if result == unsat ... elif result == sat ... else ...
Classify(res) ==
    IF res = "unsat" THEN "holds"
    ELSE IF res = "sat" THEN "doesn't hold"
    ELSE "unknown"

\* an element carrying the elapsed time next to the status
ResultEntry_Timed(status, elapsed) == [status |-> status, elapsedSeconds |-> elapsed]

\* the element check appends to results: the status string alone
ResultEntry(status, elapsed) == [status |-> status]

\* results.insert(0, ...) instead of results.append(...)
AppendResult_Front(list, entry) == <<entry>> \o list

AppendResult(list, entry) == Append(list, entry)

\* {duration:.3f}: seconds with three decimals, i.e. whole milliseconds
Format3f(micros) == (micros + 500) \div 1000

ResultLabel(res) ==
    IF res = "unsat" THEN "HOLDS"
    ELSE IF res = "sat" THEN "DOESN'T HOLD"
    ELSE "UNKNOWN"

ResultLine(res, micros) == [label |-> ResultLabel(res), millis |-> Format3f(micros)]

NoLine == [label |-> "none", millis |-> 0]

\* a conclusion whose decision was inconclusive is taken up again
Advance_Retry(idx) == IF result = "unknown" THEN idx ELSE idx + 1

\* enumerate(conclusions): the index after idx
Advance(idx) == idx + 1

CheckInit ==
    /\ pc = "idle"
    /\ assumptions = <<>>
    /\ conclusions = <<>>
    /\ timeout_ms = DefaultTimeout
    /\ i = 0
    /\ s = Unbound
    /\ shown = "none"
    /\ result = "none"
    /\ duration = 0
    /\ results = <<>>
    /\ line = NoLine
    /\ returned = <<>>
    /\ oracle = {}
    /\ opened = <<>>
    /\ queries = <<>>
    /\ calls = 0
    /\ prevReturned = <<>>

\* the driver calls check(assumptions, conclusions[, timeout_ms])
Call(assms, concls, ms) ==
    /\ pc = "idle"
    /\ calls = 0
    /\ assumptions' = assms
    /\ conclusions' = concls
    /\ timeout_ms' = ms
    /\ results' = <<>>
    /\ i' = 0
    /\ calls' = 1
    /\ pc' = "loop"
    /\ UNCHANGED <<s, shown, result, duration, line, returned, deterministic,
                   oracle, opened, queries, prevReturned>>
    /\ UNCHANGED termVars

\* check is called a second time with identical arguments
CallAgain ==
    /\ pc = "done"
    /\ calls = 1
    /\ prevReturned' = returned
    /\ results' = <<>>
    /\ i' = 0
    /\ s' = Unbound
    /\ shown' = "none"
    /\ result' = "none"
    /\ duration' = 0
    /\ line' = NoLine
    /\ returned' = <<>>
    /\ opened' = <<>>
    /\ queries' = <<>>
    /\ calls' = 2
    /\ pc' = "loop"
    /\ UNCHANGED <<assumptions, conclusions, timeout_ms, deterministic, oracle>>
    /\ UNCHANGED termVars

\* for i, concl in enumerate(conclusions): s = Solver(); s.set; s.add; s.add(Not(concl))
OpenSession ==
    /\ pc = "loop"
    /\ i < Len(conclusions)
    /\ i' = Advance(i)
    /\ s' = Add(AddAll(SetTimeout(Solver, timeout_ms), assumptions),
                Not(conclusions[i']))
    /\ opened' = Append(opened, i')
    /\ pc' = "display"
    /\ UNCHANGED <<assumptions, conclusions, timeout_ms, shown, result, duration,
                   results, line, returned, deterministic, oracle, queries,
                   calls, prevReturned>>
    /\ UNCHANGED termVars

\* print the conclusion; fall back to sexpr(); fall back to a placeholder
Display(primary, fallback) ==
    /\ pc = "display"
    /\ shown' = DisplayConclusion(primary, fallback)
    /\ pc' = IF shown' = "raise" THEN "raised" ELSE "decide"
    /\ UNCHANGED <<assumptions, conclusions, timeout_ms, i, s, result, duration,
                   results, line, returned, deterministic, oracle, opened,
                   queries, calls, prevReturned>>
    /\ UNCHANGED termVars

\* start_time; result = s.check(); end_time; duration
Decide(outcome, micros) ==
    /\ pc = "decide"
    /\ outcome \in Answers(s)
    /\ result' = outcome
    /\ duration' = micros
    /\ queries' = Append(queries, [idx |-> i, session |-> s, outcome |-> outcome])
    /\ oracle' = IF deterministic
                 THEN oracle \cup {[query |-> s, outcome |-> outcome]}
                 ELSE oracle
    /\ pc' = "classify"
    /\ UNCHANGED <<assumptions, conclusions, timeout_ms, i, s, shown, results,
                   line, returned, deterministic, opened, calls, prevReturned>>
    /\ UNCHANGED termVars

\* the if / elif / else: print the result line and append the status
Record ==
    /\ pc = "classify"
    /\ line' = ResultLine(result, duration)
    /\ results' = AppendResult(results, ResultEntry(Classify(result), duration))
    /\ pc' = "loop"
    /\ UNCHANGED <<assumptions, conclusions, timeout_ms, i, s, shown, result,
                   duration, returned, deterministic, oracle, opened, queries,
                   calls, prevReturned>>
    /\ UNCHANGED termVars

\* the loop is exhausted: return results
ReturnResults ==
    /\ pc = "loop"
    /\ ~(i < Len(conclusions))
    /\ returned' = results
    /\ pc' = "done"
    /\ UNCHANGED <<assumptions, conclusions, timeout_ms, i, s, shown, result,
                   duration, results, line, deterministic, oracle, opened,
                   queries, calls, prevReturned>>
    /\ UNCHANGED termVars

\* ---------------------------------------------------------------------------
\* Specifications
\* ---------------------------------------------------------------------------
Init ==
    /\ CheckInit
    /\ deterministic \in BOOLEAN
    /\ TermInit

Next ==
    \/ \E assms \in AssumptionLists, concls \in ConclusionLists, ms \in Timeouts :
          Call(assms, concls, ms)
    \/ OpenSession
    \/ \E primary \in {"ok", "Exception"},
          fallback \in {"ok", "AttributeError", "Exception"} :
          Display(primary, fallback)
    \/ \E outcome \in Outcomes, micros \in Durations : Decide(outcome, micros)
    \/ Record
    \/ ReturnResults
    \/ CallAgain

Spec == Init /\ [][Next]_vars

TermSpecInit ==
    /\ CheckInit
    /\ deterministic = TRUE
    /\ TermInit

TermNext ==
    \/ \E args \in OperandTuples : CallP(args)
    \/ \E args \in OperandTuples : CallM(args)
    \/ \E args \in OperandTuples : CallF(args)
    \/ \E a \in Operands, b \in Operands : Call_t(a, b)
    \/ \E a \in Operands, b \in Operands : Call_v(a, b)
    \/ NextTerm

TermSpec == TermSpecInit /\ [][TermNext]_vars

\* ---------------------------------------------------------------------------
\* Properties of check
\* ---------------------------------------------------------------------------
\* the session check is expected to decide for the conclusion at index idx
ExpectedSession(idx) ==
    [timeout |-> timeout_ms,
     assertions |-> assumptions \o <<Not(conclusions[idx])>>]

\* the decisions taken for the conclusion at index idx in this invocation
DecisionsFor(idx) == {n \in 1..Len(queries) : queries[n].idx = idx}

\* C1: the list check returns has one element per conclusion, and its k-th
\* element is the classification of the decision taken for the k-th conclusion
\* (nothing skipped, duplicated or reordered); while the loop runs, results
\* holds exactly the classifications of the conclusions decided so far.
C1_OneResultPerConclusionInOrder ==
    /\ Len(results) <= Len(conclusions)
    /\ \A k \in 1..Len(results) :
          \E n \in DecisionsFor(k) :
             /\ queries[n].session.assertions[Len(queries[n].session.assertions)]
                   = Not(conclusions[k])
             /\ results[k].status = Classify(queries[n].outcome)
    /\ pc = "done" =>
          /\ Len(returned) = Len(conclusions)
          /\ returned = results

C1_Witness ==
    /\ pc = "done"
    /\ Len(conclusions) = 2
    /\ conclusions[1] # conclusions[2]
    /\ returned[1].status = "unknown"
    /\ returned[2].status = "holds"

\* C2: unsat is reported as "holds", sat as "doesn't hold", every other
\* answer of the oracle as "unknown"; every element of results is one of
\* these three values.
C2_OutcomeMapping ==
    /\ Len(results) <= Len(queries)
    /\ \A k \in 1..Len(results) :
          /\ queries[k].outcome = "unsat" => results[k].status = "holds"
          /\ queries[k].outcome = "sat" => results[k].status = "doesn't hold"
          /\ queries[k].outcome \notin {"unsat", "sat"} =>
                results[k].status = "unknown"
          /\ results[k].status \in {"holds", "doesn't hold", "unknown"}

C2_Witness ==
    /\ pc = "done"
    /\ Len(returned) = 2
    /\ queries[1].outcome = "sat"
    /\ queries[2].outcome = "unknown"
    /\ returned[1].status = "doesn't hold"
    /\ returned[2].status = "unknown"

\* C3: a failure to display a conclusion is never fatal: whichever way the
\* primary display and the fallback dump fail, check is not aborted.
C3_DisplayFailureNeverFatal == pc # "raised"

\* C4 (as claimed): every returned element carries the status and the
\* elapsed seconds of its decision.
C4_ReturnsStatusAndElapsed ==
    pc = "done" =>
       \A k \in 1..Len(returned) :
          {"status", "elapsedSeconds"} \subseteq DOMAIN returned[k]

\* C4 (amended): every returned element is the classification status alone,
\* one per conclusion in input order; the elapsed time of a decision is only
\* printed, rounded to milliseconds, in that decision's result line.
C4_ReturnsStatusOnly ==
    /\ \A k \in 1..Len(results) : DOMAIN results[k] = {"status"}
    /\ pc = "done" =>
          /\ Len(returned) = Len(conclusions)
          /\ \A k \in 1..Len(returned) :
                /\ DOMAIN returned[k] = {"status"}
                /\ returned[k].status = Classify(queries[k].outcome)
    /\ (pc = "loop" /\ Len(results) > 0) =>
          /\ line.label = ResultLabel(queries[Len(results)].outcome)
          /\ 1000 * line.millis - 500 <= duration
          /\ duration < 1000 * line.millis + 500

C4_Witness ==
    /\ pc = "done"
    /\ Len(returned) = 2
    /\ duration = 12600
    /\ line.millis = 13
    /\ returned[2] = [status |-> "holds"]

\* C5: with a deterministic oracle the classification of a conclusion is the
\* oracle's answer to the query fixed by (assumptions, conclusion, timeout):
\* equal conclusions of one list get equal classifications whatever precedes
\* them, and a second invocation with the same arguments returns the same
\* classifications.
C5_ClassificationDeterministic ==
    deterministic =>
       /\ \A j, k \in 1..Len(results) :
             conclusions[j] = conclusions[k] =>
                results[j].status = results[k].status
       /\ \A k \in 1..Len(results) :
             \E known \in oracle :
                /\ known.query = ExpectedSession(k)
                /\ results[k].status = Classify(known.outcome)
       /\ calls = 2 =>
             \A k \in 1..Len(results) :
                results[k].status = prevReturned[k].status
       /\ (calls = 2 /\ pc = "done") =>
             /\ Len(returned) = Len(prevReturned)
             /\ \A k \in 1..Len(returned) :
                   returned[k].status = prevReturned[k].status

C5_Witness ==
    /\ deterministic
    /\ calls = 2
    /\ pc = "done"
    /\ Len(returned) = 2
    /\ conclusions[1] # conclusions[2]
    /\ returned[1].status # returned[2].status

\* C9: every decision for a conclusion runs on a session whose assertions are
\* exactly the assumptions followed by the negation of that conclusion and
\* whose timeout is the timeout passed to check; nothing of another
\* conclusion's session is present.
C9_SessionIsAssumptionsPlusNegation ==
    /\ pc = "decide" => s = ExpectedSession(i)
    /\ \A n \in 1..Len(queries) :
          /\ queries[n].session.timeout = timeout_ms
          /\ queries[n].session.assertions =
                assumptions \o <<Not(conclusions[queries[n].idx])>>
          /\ \A k \in 1..Len(conclusions) :
                conclusions[k] # conclusions[queries[n].idx] =>
                   \A a \in 1..Len(queries[n].session.assertions) :
                      queries[n].session.assertions[a] # Not(conclusions[k])

C9_Witness ==
    /\ Len(queries) = 2
    /\ Len(assumptions) > 1
    /\ timeout_ms # DefaultTimeout
    /\ conclusions[1] # conclusions[2]
    /\ queries[2].session.assertions[Len(assumptions) + 1] = Not(conclusions[2])

\* the state part of C10
C10_Sequential ==
    /\ \A n \in 1..Len(opened) : opened[n] = n
    /\ \A n \in 1..Len(queries) : queries[n].idx = n
    /\ Len(opened) - Len(queries) \in {0, 1}
    /\ Len(opened) - Len(queries) = 1 <=> pc \in {"display", "decide", "raised"}
    /\ Len(queries) - Len(results) \in {0, 1}
    /\ pc = "done" =>
          /\ Len(queries) = Len(conclusions)
          /\ Len(opened) = Len(conclusions)

\* the step part of C10
C10_Continues ==
    /\ pc = "classify" =>
          /\ pc' = "loop"
          /\ Len(results') = Len(results) + 1
          /\ queries' = queries
    /\ (pc = "loop" /\ pc' # "loop") =>
          IF Len(queries) < Len(conclusions)
          THEN /\ pc' = "display"
               /\ i' = Len(queries) + 1
               /\ opened' = Append(opened, Len(queries) + 1)
          ELSE pc' = "done"

\* C10: the conclusions are processed one at a time in input order; the
\* oracle decides each conclusion once, the decision for a conclusion is
\* complete before the next session is opened, no outcome is retried, and
\* after every outcome the loop goes on to the next conclusion, check
\* returning after the last decision.
C10_StrictlySequential == []C10_Sequential /\ [][C10_Continues]_vars

C10_Witness ==
    /\ pc = "done"
    /\ Len(conclusions) = 2
    /\ queries[1].outcome = "unknown"
    /\ queries[2].idx = 2
    /\ Len(queries) = 2

\* ---------------------------------------------------------------------------
\* Properties of the term builder
\* ---------------------------------------------------------------------------
OperatorOf(name) == IF name = "P" THEN "p" ELSE IF name = "M" THEN "m" ELSE "f"

\* number of applications of op in a term
RECURSIVE ApplicationsOf(_, _)
ApplicationsOf(op, term) ==
    IF Len(term) = 3
    THEN (IF term[1] = op THEN 1 ELSE 0)
         + ApplicationsOf(op, term[2]) + ApplicationsOf(op, term[3])
    ELSE 0

RECURSIVE ApplicationsInAll(_, _)
ApplicationsInAll(op, args) ==
    IF args = <<>> THEN 0
    ELSE ApplicationsOf(op, Head(args)) + ApplicationsInAll(op, Tail(args))

\* term is op(op(...op(o1,o2)...,o_{n-1}),o_n) for the first n operands
RECURSIVE LeftNested(_, _, _, _)
LeftNested(op, term, args, n) ==
    IF n = 1 THEN term = args[1]
    ELSE /\ Len(term) = 3
         /\ term[1] = op
         /\ term[3] = args[n]
         /\ LeftNested(op, term[2], args, n - 1)

\* C6: P, M and F applied to N >= 1 operands return the left fold
\* op(op(...op(o1,o2)...,o_{N-1}),o_N): N-1 new applications of the helper's
\* operator, the accumulated term on the left and the next operand on the
\* right; a single operand is returned as it is.
C6_LeftFold ==
    (helper \in {"P", "M", "F"} /\ Len(operands) >= 1) =>
       /\ built.kind = "return"
       /\ LeftNested(OperatorOf(helper), built.value, operands, Len(operands))
       /\ ApplicationsOf(OperatorOf(helper), built.value) =
             Len(operands) - 1 + ApplicationsInAll(OperatorOf(helper), operands)
       /\ Len(operands) = 1 => built.value = operands[1]

C6_Witness ==
    /\ helper = "P"
    /\ operands = <<x, p(x, y), y>>
    /\ built.value = <<"p", <<"p", <<"x">>, <<"p", <<"x">>, <<"y">>>>>>, <<"y">>>>

\* C7: P, M and F raise ValueError exactly when called without operands, and
\* then build no term; with one or more operands they return a term.
C7_EmptyRaises ==
    helper \in {"P", "M", "F"} =>
       /\ Len(operands) = 0 => built = [kind |-> "raise", value |-> <<"ValueError">>]
       /\ Len(operands) >= 1 => built.kind = "return"
       /\ built.kind \in {"return", "raise"}

C7_Witness ==
    /\ helper = "M"
    /\ operands = <<>>
    /\ built.kind = "raise"

\* C8: t(a,b) is the term f(f(a,b),b) and v(a,b) is f(f(f(f(a,b),b),a),a),
\* with the arguments in exactly these places and no operator but f added.
C8_DerivedMacros ==
    /\ helper = "t" =>
          built = [kind |-> "return",
                   value |-> <<"f", <<"f", operands[1], operands[2]>>, operands[2]>>]
    /\ helper = "v" =>
          /\ built = [kind |-> "return",
                      value |-> <<"f", <<"f", <<"f", <<"f", operands[1], operands[2]>>,
                                                operands[2]>>,
                                         operands[1]>>,
                                  operands[1]>>]
          /\ ApplicationsOf("f", built.value) =
                4 + 3 * ApplicationsOf("f", operands[1])
                  + 2 * ApplicationsOf("f", operands[2])
          /\ ApplicationsOf("p", built.value) =
                3 * ApplicationsOf("p", operands[1])
                + 2 * ApplicationsOf("p", operands[2])

C8_Witness ==
    /\ helper = "v"
    /\ operands = <<p(x, y), e>>
    /\ built.kind = "return"

====
